---------------------------- MODULE Spec2Model ----------------------------
(***************************************************************************)
(* The batch loop engine (LoopEngine): a checkpoint file on disk, the      *)
(* in-memory checkpoint of the running process, the dispatch loop of run   *)
(* with its activePromises, and the outcome handling of processItem.       *)
(* A process can be killed at any point and a later process resumes from   *)
(* the checkpoint file.                                                    *)
(***************************************************************************)
EXTENDS Integers, Sequences, FiniteSets, TLC

(* ------------------------------ bounds -------------------------------- *)
MaxItems == 2
MaxRuns == 2
MaxLogs == 2                \* messages in the logs of one item

(* --------------------------- program constants ------------------------ *)
DefaultMaxRetries == 3
DefaultConcurrency == 1

Absent == "absent"          \* a property that is not present on the object
Undefined == "undefined"    \* a property present in memory with value undefined
NoError == << >>

(* --------------------- configurations and worker values --------------- *)
ConcurrencyValues == {1, 2}          \* concurrency: a positive integer
MaxRetriesValues == {0, 1, 2}        \* maxRetries: a non-negative integer
TimeoutValues == {0, 100}            \* itemTimeoutMs: absent/zero, or positive
Results == {"r1", Undefined}         \* values a worker may return; a worker
                                     \* without a return statement gives undefined
Messages == {"boom"}                 \* messages of errors a worker may throw
Prompts == {"p1", "p2"}              \* payloads of AgentBridgeError

ItemIds == 1..MaxItems

VARIABLES
    cfg,            \* this.config as given to the constructor
    input,          \* the input array (inputData / the file at inputPath)
    file,           \* the checkpoint file: << >> (no file) or <<checkpoint>>
    checkpoint,     \* this.checkpoint of the running process
    loop,           \* where the process is: down, dispatch, race, all, done
    pendingItems,   \* run: the filtered items, as indices into items
    cursor,         \* run: position of the for loop in pendingItems
    activePromises, \* run: items whose processItem promise is in the array
    workers,        \* items whose worker promise has not settled yet
    runs,           \* number of processes started so far; the clock of a
                    \* process shows its number
    kills,          \* number of processes killed before run returned
    calls,          \* per item: number of times worker() was called
    completions,    \* per item: number of completedCount++ it caused
    suspensions,    \* per item: number of transitions into awaiting_agent
    attemptsBefore, \* per item: attempts just before its latest dispatch
    alwaysThrew,    \* per item: every outcome applied so far was an error
    failCounts,     \* per item: number of failedCount++ it caused
    raised,         \* per item: payload of the latest AgentBridgeError
    returned,       \* per item: value the worker returned when it completed
    torn,           \* the checkpoint file holds an interrupted write
    loadErrors,     \* number of processes that died in loadCheckpoint
    rejected,       \* items whose processItem promise rejected (a save threw)
    startItems,     \* items of the checkpoint when the current run began
    dispatched,     \* items dispatched in the current run
    llm             \* the LLM client a worker uses, and its chat call

vars == << cfg, input, file, checkpoint, loop, pendingItems, cursor,
           activePromises, workers, runs, kills, calls, completions,
           suspensions, attemptsBefore, alwaysThrew, failCounts, raised,
           returned, torn, loadErrors, rejected, startItems, dispatched, llm >>

(* ------------------------------ helpers ------------------------------- *)
Indices(s) == 1..Len(s)

CountWhere(items, P(_)) == Cardinality({i \in Indices(items) : P(items[i])})

(* config defaults: { concurrency: 1, maxRetries: 3, ...config } *)
Config(given) == given

(* this.config.maxRetries || 3 *)
maxRetriesOf(c) == IF c.maxRetries = 0 THEN DefaultMaxRetries ELSE c.maxRetries

(* this.config.concurrency || 1 *)
concurrencyOf(c) == IF c.concurrency = 0 THEN DefaultConcurrency ELSE c.concurrency

(* ----------------------------- checkpoint ----------------------------- *)
(* `item-${index}` *)
ItemId(index) == << "item-", index >>

NewItem(index, data) ==
    [ id |-> ItemId(index), data |-> data, status |-> "pending", attempts |-> 0,
      output |-> Absent, lastError |-> NoError, pendingPrompt |-> Absent,
      logs |-> << >> ]

(* `job-${Date.now()}` *)
JobId(now) == << "job-", now >>

(* the checkpoint of a new job; now is the time on the clock of the       *)
(* process that builds it                                                 *)
NewCheckpoint(inputData, now) ==
    [ jobId |-> JobId(now),
      startTime |-> now,
      items |-> [i \in Indices(inputData) |-> NewItem(i - 1, inputData[i])],
      completedCount |-> 0,
      failedCount |-> 0 ]

EmptyCheckpoint == NewCheckpoint(<< >>, 0)

(* JSON.stringify drops the properties whose value is undefined *)
StringifyField(v) == IF v = Undefined THEN Absent ELSE v

StringifyItem(it) ==
    [it EXCEPT !.output = StringifyField(it.output),
               !.pendingPrompt = StringifyField(it.pendingPrompt)]

Stringify(cp) == [cp EXCEPT !.items = [i \in Indices(cp.items) |-> StringifyItem(cp.items[i])]]

(* saveCheckpoint: writeFileSync(checkpointPath, JSON.stringify(checkpoint)) *)
saveCheckpoint(cp) == << Stringify(cp) >>

(* variant: a resumed job is given a new jobId *)
loadCheckpoint_NewJobId(f, inputData, now) ==
    IF f # << >> THEN [f[1] EXCEPT !.jobId = JobId(now)]
    ELSE NewCheckpoint(inputData, now)

(* variant: the items are rebuilt from the input at every construction *)
loadCheckpoint_RereadsInput(f, inputData, now) ==
    IF f # << >>
    THEN [f[1] EXCEPT !.items = NewCheckpoint(inputData, now).items]
    ELSE NewCheckpoint(inputData, now)

(* loadCheckpoint: the parsed file when it exists, else a new job *)
loadCheckpoint(f, inputData, now) ==
    IF f # << >> THEN f[1] ELSE NewCheckpoint(inputData, now)

(* ------------------------------- run ---------------------------------- *)
(* variants of the filter, each with one slip *)
IsPendingItem_NoCompletedCheck(item, c) ==
    /\ item.status # "awaiting_agent"
    /\ ~(item.status = "failed" /\ item.attempts >= maxRetriesOf(c))

IsPendingItem_SkipsProcessing(item, c) ==
    /\ item.status \notin {"completed", "awaiting_agent", "processing"}
    /\ ~(item.status = "failed" /\ item.attempts >= maxRetriesOf(c))

IsPendingItem_NoAwaitingCheck(item, c) ==
    /\ item.status # "completed"
    /\ ~(item.status = "failed" /\ item.attempts >= maxRetriesOf(c))

(* the filter of run: which items this run will process *)
IsPendingItem(item, c) ==
    /\ item.status # "completed"
    /\ item.status # "awaiting_agent"
    /\ ~(item.status = "failed" /\ item.attempts >= maxRetriesOf(c))

(* variant: the filtered items are queued a second time, as a retry pass *)
PendingItemsOf_RetryPass(cp, c) ==
    LET kept == SelectSeq([i \in Indices(cp.items) |-> i],
                          LAMBDA i : IsPendingItem(cp.items[i], c))
    IN kept \o kept

(* variant: the filtered items are taken last first *)
PendingItemsOf_Reversed(cp, c) ==
    LET kept == SelectSeq([i \in Indices(cp.items) |-> i],
                          LAMBDA i : IsPendingItem(cp.items[i], c))
    IN [k \in 1..Len(kept) |-> kept[Len(kept) + 1 - k]]

PendingItemsOf(cp, c) ==
    SelectSeq([i \in Indices(cp.items) |-> i],
              LAMBDA i : IsPendingItem(cp.items[i], c))

(* variant: the length test of the loop with > in place of >= *)
LoopAt_OffByOne(pending, k, active, c) ==
    IF k > Len(pending) THEN "all"
    ELSE IF Cardinality(active) > concurrencyOf(c) THEN "race"
    ELSE "dispatch"

(* where the for loop of run stands with the cursor at position k:        *)
(* "all": the loop is over, await Promise.all(activePromises);            *)
(* "race": activePromises.length >= concurrency, await Promise.race(...); *)
(* "dispatch": the next processItem call follows without an await         *)
LoopAt(pending, k, active, c) ==
    IF k > Len(pending) THEN "all"
    ELSE IF Cardinality(active) >= concurrencyOf(c) THEN "race"
    ELSE "dispatch"

(* --------------------------- processItem ------------------------------ *)
(* variant: the attempt is not counted at dispatch *)
MarkProcessing_NoAttempt(cp, i) == [cp EXCEPT !.items[i].status = "processing"]

(* item.status = 'processing'; item.attempts++ *)
MarkProcessing(cp, i) ==
    [cp EXCEPT !.items[i].status = "processing",
               !.items[i].attempts = @ + 1]

(* variant: the returned value is not stored *)
ApplyResult_DropsOutput(cp, i, result) ==
    [cp EXCEPT !.items[i].status = "completed",
               !.completedCount = @ + 1]

(* variant: the completion is not counted *)
ApplyResult_NoCount(cp, i, result) ==
    [cp EXCEPT !.items[i].status = "completed",
               !.items[i].output = result]

(* variant: a completion clears the lastError of every item *)
ApplyResult_ClearsAllErrors(cp, i, result) ==
    [cp EXCEPT !.items = [j \in Indices(cp.items) |->
                            IF j = i
                            THEN [cp.items[j] EXCEPT !.status = "completed",
                                                     !.output = result,
                                                     !.lastError = NoError]
                            ELSE [cp.items[j] EXCEPT !.lastError = NoError]],
               !.completedCount = @ + 1]

(* variant: a completion clears the lastError of the item *)
ApplyResult_ClearsLastError(cp, i, result) ==
    [cp EXCEPT !.items[i].status = "completed",
               !.items[i].output = result,
               !.items[i].lastError = NoError,
               !.completedCount = @ + 1]

(* the try block after the worker returned result *)
ApplyResult(cp, i, result) ==
    [cp EXCEPT !.items[i].status = "completed",
               !.items[i].output = result,
               !.completedCount = @ + 1]

(* variant: the attempt is not rolled back *)
ApplyAgentBridge_NoRollback(cp, i, messages) ==
    [cp EXCEPT !.items[i].status = "awaiting_agent",
               !.items[i].pendingPrompt = messages]

(* variant: the suspension resets the attempts counter *)
ApplyAgentBridge_ResetAttempts(cp, i, messages) ==
    [cp EXCEPT !.items[i].status = "awaiting_agent",
               !.items[i].pendingPrompt = messages,
               !.items[i].attempts = 0]

(* catch: error instanceof AgentBridgeError *)
ApplyAgentBridge(cp, i, messages) ==
    [cp EXCEPT !.items[i].status = "awaiting_agent",
               !.items[i].pendingPrompt = messages,
               !.items[i].attempts = @ - 1]

(* catch: any other error *)
ApplyError(cp, i, errorMessage, c) ==
    [cp EXCEPT !.items[i].lastError = errorMessage,
               !.items[i].status = "failed",
               !.failedCount = IF cp.items[i].attempts >= maxRetriesOf(c)
                               THEN @ + 1 ELSE @]

(* new Error(`Operation timed out after ${itemTimeoutMs}ms`) *)
TimeoutMessage(ms) == << "Operation timed out after ", ms, "ms" >>

WorkerMessage(m) == << m >>

(* ------------------------------- Init --------------------------------- *)
Configs ==
    [ concurrency : ConcurrencyValues,
      maxRetries : MaxRetriesValues,
      itemTimeoutMs : TimeoutValues ]

Inputs == { [i \in 1..n |-> "d"] : n \in 0..MaxItems }

InitEngine(inputs) ==
    /\ cfg \in Configs
    /\ input \in inputs
    /\ file = << >>
    /\ checkpoint = EmptyCheckpoint
    /\ loop = "down"
    /\ pendingItems = << >>
    /\ cursor = 1
    /\ activePromises = {}
    /\ workers = {}
    /\ runs = 0
    /\ kills = 0
    /\ calls = [i \in ItemIds |-> 0]
    /\ completions = [i \in ItemIds |-> 0]
    /\ suspensions = [i \in ItemIds |-> 0]
    /\ attemptsBefore = [i \in ItemIds |-> 0]
    /\ alwaysThrew = [i \in ItemIds |-> TRUE]
    /\ failCounts = [i \in ItemIds |-> 0]
    /\ raised = [i \in ItemIds |-> Absent]
    /\ returned = [i \in ItemIds |-> Absent]
    /\ torn = FALSE
    /\ loadErrors = 0
    /\ rejected = {}
    /\ startItems = << >>
    /\ dispatched = {}

(* no LLM client has been constructed *)
NoClient == [pc |-> "none"]

InitWith(inputs) == InitEngine(inputs) /\ llm = NoClient

Init == InitWith(Inputs)

(* ------------------------------ actions ------------------------------- *)
FileExists == file # << >>

ghosts == << calls, completions, suspensions, attemptsBefore, alwaysThrew,
            failCounts, raised, returned >>
crash == << torn, loadErrors, rejected >>

(* new LoopEngine(config) followed by run(worker) up to the for loop *)
Start ==
    /\ loop = "down"
    /\ runs < MaxRuns
    /\ ~torn
    /\ LET cp == loadCheckpoint(file, input, runs + 1) IN
        /\ checkpoint' = cp
        /\ pendingItems' = PendingItemsOf(cp, Config(cfg))
        /\ startItems' = cp.items
        /\ loop' = LoopAt(PendingItemsOf(cp, Config(cfg)), 1, {}, Config(cfg))
    /\ cursor' = 1
    /\ activePromises' = {}
    /\ workers' = {}
    /\ dispatched' = {}
    /\ runs' = runs + 1
    /\ UNCHANGED << cfg, input, file, kills, ghosts, crash, llm >>

(* variant: the item is marked processing without a save *)
FlushAtDispatch_Missing(f, cp) == f

(* this.saveCheckpoint() right after the item is marked processing *)
FlushAtDispatch(f, cp) == saveCheckpoint(cp)

(* for loop body: processItem(item, worker) up to its first await *)
Dispatch ==
    /\ \/ loop = "dispatch"
       \/ loop = "race" /\ Cardinality(activePromises) < concurrencyOf(Config(cfg))
    /\ LET i == pendingItems[cursor]
           cp == MarkProcessing(checkpoint, i) IN
        /\ checkpoint' = cp
        /\ file' = FlushAtDispatch(file, cp)
        /\ activePromises' = activePromises \cup {i}
        /\ workers' = workers \cup {i}
        /\ dispatched' = dispatched \cup {i}
        /\ calls' = [calls EXCEPT ![i] = @ + 1]
        /\ attemptsBefore' = [attemptsBefore EXCEPT ![i] = checkpoint.items[i].attempts]
        /\ loop' = LoopAt(pendingItems, cursor + 1, activePromises \cup {i}, Config(cfg))
    /\ cursor' = cursor + 1
    /\ UNCHANGED << cfg, input, pendingItems, runs, kills,
                    completions, suspensions, alwaysThrew, failCounts, raised,
                    returned, crash, llm, startItems >>

Yielded == loop \in {"race", "all"}

(* no code of the process is running: run awaits, or run has rejected and *)
(* the process lives on for the invocations still in flight               *)
Idle == Yielded \/ loop = "rejected"

(* variant: the AgentBridgeError branch never settles the promise *)
Splice_NotAfterSuspension(active, i, kind) ==
    IF kind = "suspended" THEN active ELSE active \ {i}

(* variant: a worker error rejects the processItem promise, so its then   *)
(* callback does not run                                                  *)
Splice_NotAfterError(active, i, kind) ==
    IF kind = "error" THEN active ELSE active \ {i}

(* the then callback of run: the promise removes itself, whatever the     *)
(* outcome, because processItem catches every error                       *)
Splice(active, i, kind) == active \ {i}

(* processItem after its await: outcome applied, finally saveCheckpoint,  *)
(* then the promise removes itself from activePromises                    *)
Settle(i, cp, kind) ==
    /\ checkpoint' = cp
    /\ file' = saveCheckpoint(cp)
    /\ activePromises' = Splice(activePromises, i, kind)
    /\ alwaysThrew' = [alwaysThrew EXCEPT ![i] = @ /\ kind \in {"error", "timeout"}]
    /\ completions' = [completions EXCEPT ![i] = @ + cp.completedCount - checkpoint.completedCount]
    /\ failCounts' = [failCounts EXCEPT ![i] = @ + cp.failedCount - checkpoint.failedCount]
    /\ suspensions' = [suspensions EXCEPT ![i] = @ + IF kind = "suspended" THEN 1 ELSE 0]
    /\ UNCHANGED << cfg, input, loop, pendingItems, cursor, runs, kills,
                    calls, attemptsBefore, crash, llm, startItems, dispatched >>

WorkerReturns(i, result) ==
    /\ Idle
    /\ i \in activePromises /\ i \in workers
    /\ Settle(i, ApplyResult(checkpoint, i, result), "completed")
    /\ workers' = workers \ {i}
    /\ returned' = [returned EXCEPT ![i] = result]
    /\ UNCHANGED raised

(* new AgentBridgeError(messages): super('AGENT_BRIDGE_REQUIRED') *)
AgentBridgeErrorOf(messages) ==
    [ class |-> "AgentBridgeError", message |-> "AGENT_BRIDGE_REQUIRED",
      messages |-> messages ]

(* new Error(m) *)
ErrorOf(m) == [ class |-> "Error", message |-> m, messages |-> Absent ]

(* throw v where v is not an Error: a string or a number *)
ThrownValue(type, v) ==
    [ class |-> type, message |-> Absent, messages |-> Absent, value |-> v ]

(* error instanceof Error *)
InstanceOfError(error) == error.class \in {"Error", "AgentBridgeError"}

(* String(error) *)
StringOf(error) ==
    IF error.class = "number" THEN ToString(error.value) ELSE error.value

(* error instanceof Error ? error.message : String(error) *)
ErrorMessageOf(error) ==
    IF InstanceOfError(error) THEN error.message ELSE StringOf(error)

(* variant: the sentinel is recognised by its message *)
InstanceOfAgentBridgeError_ByMessage(error) == error.message = "AGENT_BRIDGE_REQUIRED"

(* error instanceof AgentBridgeError *)
InstanceOfAgentBridgeError(error) == error.class = "AgentBridgeError"

(* the catch block of processItem *)
CatchBlock(cp, i, error, c) ==
    IF InstanceOfAgentBridgeError(error)
    THEN ApplyAgentBridge(cp, i, error.messages)
    ELSE ApplyError(cp, i, WorkerMessage(ErrorMessageOf(error)), c)

(* the awaited workerPromise rejects with error *)
WorkerRejects(i, error) ==
    /\ Idle
    /\ i \in activePromises /\ i \in workers
    /\ Settle(i, CatchBlock(checkpoint, i, error, Config(cfg)),
              IF InstanceOfAgentBridgeError(error) THEN "suspended" ELSE "error")
    /\ workers' = workers \ {i}
    /\ raised' = [raised EXCEPT ![i] = IF error.class = "AgentBridgeError"
                                       THEN error.messages ELSE @]
    /\ UNCHANGED returned

WorkerSuspends(i, messages) == WorkerRejects(i, AgentBridgeErrorOf(messages))

WorkerThrows(i, m) == WorkerRejects(i, ErrorOf(m))

(* variant: the timer is armed whatever itemTimeoutMs is *)
TimerArmed_Always(c) == TRUE

(* if (this.config.itemTimeoutMs && this.config.itemTimeoutMs > 0) *)
TimerArmed(c) == c.itemTimeoutMs > 0

(* the timer of Promise.race([workerPromise, timeoutPromise]) wins *)
TimerFires(i) ==
    /\ Idle
    /\ TimerArmed(Config(cfg))
    /\ i \in activePromises /\ i \in workers
    /\ Settle(i, ApplyError(checkpoint, i, TimeoutMessage(cfg.itemTimeoutMs), Config(cfg)),
              "timeout")
    /\ UNCHANGED << workers, raised, returned >>

(* variant: the value of a worker that settles after its timeout is       *)
(* applied as a completion                                                *)
LateOutcome_Completes(cp, i) == ApplyResult(cp, i, "r1")

(* Promise.race has settled with the rejection of the timer and the       *)
(* continuation of processItem has run: the later settlement of           *)
(* workerPromise reaches no code of the engine                            *)
LateOutcome(cp, i) == cp

(* a worker that lost the race against its timer settles: nothing listens *)
WorkerSettlesLate(i) ==
    /\ loop \in {"race", "all", "done"}
    /\ i \in workers \ activePromises
    /\ workers' = workers \ {i}
    /\ checkpoint' = LateOutcome(checkpoint, i)
    /\ UNCHANGED << cfg, input, file, loop, pendingItems, cursor,
                    activePromises, runs, kills, ghosts, crash, llm, startItems,
                    dispatched >>

(* Promise.all settled: 'Job finished.' and the summary lines *)
Finish ==
    /\ loop = "all"
    /\ activePromises = {}
    /\ loop' = "done"
    /\ UNCHANGED << cfg, input, file, checkpoint, pendingItems, cursor,
                    activePromises, workers, runs, kills, ghosts, crash, llm,
                    startItems, dispatched >>

ProcessGone ==
    /\ loop' = "down"
    /\ checkpoint' = EmptyCheckpoint
    /\ pendingItems' = << >>
    /\ cursor' = 1
    /\ activePromises' = {}
    /\ workers' = {}
    /\ startItems' = << >>
    /\ dispatched' = {}
    /\ UNCHANGED << cfg, input, file, runs, ghosts >>

(* the process ends after run returned *)
Exit ==
    /\ loop = "done"
    /\ ProcessGone
    /\ UNCHANGED << kills, crash, llm >>

(* the process is killed before run returned *)
Kill ==
    /\ loop \in {"dispatch", "race", "all"}
    /\ ProcessGone
    /\ kills' = kills + 1
    /\ UNCHANGED << crash, llm >>

Next ==
    \/ Start
    \/ Dispatch
    \/ \E i \in ItemIds, r \in Results : WorkerReturns(i, r)
    \/ \E i \in ItemIds, p \in Prompts : WorkerSuspends(i, p)
    \/ \E i \in ItemIds, m \in Messages : WorkerThrows(i, m)
    \/ \E i \in ItemIds : TimerFires(i)
    \/ \E i \in ItemIds : WorkerSettlesLate(i)
    \/ Finish
    \/ Exit
    \/ Kill

Spec == Init /\ [][Next]_vars

(* ------------------ kills while the file is rewritten ------------------ *)
(* saveCheckpoint is one fs.writeFileSync on the checkpoint path: the     *)
(* file is truncated and then filled. A save is under way inside Dispatch *)
(* and inside the finally block of every outcome.                         *)
SaveUnderWay ==
    \/ loop = "dispatch"
    \/ loop = "race" /\ Cardinality(activePromises) < concurrencyOf(Config(cfg))
    \/ Yielded /\ activePromises \cap workers # {}

(* the process is killed between the truncation and the last byte written *)
KillDuringSave ==
    /\ SaveUnderWay
    /\ ProcessGone
    /\ torn' = TRUE
    /\ kills' = kills + 1
    /\ UNCHANGED << loadErrors, rejected, llm >>

(* new LoopEngine(config): JSON.parse of the torn file throws *)
LoadFails ==
    /\ loop = "down"
    /\ runs < MaxRuns
    /\ torn
    /\ runs' = runs + 1
    /\ loadErrors' = loadErrors + 1
    /\ UNCHANGED << cfg, input, file, checkpoint, loop, pendingItems, cursor,
                    activePromises, workers, kills, ghosts, torn, rejected, llm,
                    startItems, dispatched >>

NextCrash ==
    \/ Next
    \/ KillDuringSave
    \/ LoadFails

SpecCrash == Init /\ [][NextCrash]_vars

(* ------------- a worker whose outcome depends on the data -------------- *)
(* the item data says what the worker does with it: return a value, throw *)
(* an error, throw AgentBridgeError, or take longer than any timer        *)
DataValues == {"ok", "boom", "ask", "slow"}

DataInputs == UNION { [1..n -> DataValues] : n \in 0..MaxItems }

InitData == InitWith(DataInputs)

DataOf(i) == checkpoint.items[i].data

DataReturns(i) ==
    /\ i \in Indices(checkpoint.items)
    /\ DataOf(i) = "ok" \/ (DataOf(i) = "slow" /\ ~TimerArmed(Config(cfg)))
    /\ WorkerReturns(i, "r1")

DataThrows(i) ==
    /\ i \in Indices(checkpoint.items)
    /\ DataOf(i) = "boom"
    /\ WorkerThrows(i, "boom")

DataSuspends(i) ==
    /\ i \in Indices(checkpoint.items)
    /\ DataOf(i) = "ask"
    /\ WorkerSuspends(i, "p1")

DataTimesOut(i) ==
    /\ i \in Indices(checkpoint.items)
    /\ DataOf(i) = "slow"
    /\ TimerFires(i)

NextData ==
    \/ Start
    \/ Dispatch
    \/ \E i \in ItemIds : DataReturns(i)
    \/ \E i \in ItemIds : DataThrows(i)
    \/ \E i \in ItemIds : DataSuspends(i)
    \/ \E i \in ItemIds : DataTimesOut(i)
    \/ \E i \in ItemIds : WorkerSettlesLate(i)
    \/ Finish
    \/ Exit
    \/ Kill
    \/ KillDuringSave
    \/ LoadFails

SpecData == InitData /\ [][NextData]_vars

(* ----------------- runs that are left to finish ------------------------ *)
(* the invocation on item i settles or its timer fires *)
Outcome(i) ==
    \/ \E r \in Results : WorkerReturns(i, r)
    \/ \E p \in Prompts : WorkerSuspends(i, p)
    \/ \E m \in Messages : WorkerThrows(i, m)
    \/ TimerFires(i)

NextLive ==
    \/ Start
    \/ Dispatch
    \/ \E i \in ItemIds : Outcome(i)
    \/ \E i \in ItemIds : WorkerSettlesLate(i)
    \/ Finish
    \/ Exit

(* no process is killed; the event loop runs the continuation of run when *)
(* it can (Dispatch, Finish), and every invocation settles or times out   *)
SpecLive ==
    /\ Init
    /\ [][NextLive]_vars
    /\ WF_vars(Dispatch)
    /\ WF_vars(Finish)
    /\ \A i \in ItemIds : WF_vars(Outcome(i))

(* the same fairness for processes that may be killed: a process that is *)
(* not killed is left to finish                                           *)
SpecLiveKill ==
    /\ Init
    /\ [][Next]_vars
    /\ WF_vars(Dispatch)
    /\ WF_vars(Finish)
    /\ \A i \in ItemIds : WF_vars(Outcome(i))

(* --------------- an input that changes between processes -------------- *)
(* inputData (or the file at inputPath) of a later process need not be    *)
(* the one the job was created from                                       *)
InputData == {"a", "b"}

ChangingInputs == UNION { [1..n -> InputData] : n \in 0..MaxItems }

InitInput == InitWith(ChangingInputs)

InputReplaced ==
    /\ loop = "down"
    /\ input' \in ChangingInputs \ {input}
    /\ UNCHANGED << cfg, file, checkpoint, loop, pendingItems, cursor,
                    activePromises, workers, runs, kills, ghosts, crash, llm,
                    startItems, dispatched >>

NextInput ==
    \/ Next
    \/ InputReplaced

SpecInput == InitInput /\ [][NextInput]_vars

(* -------------------- saves that throw --------------------------------- *)
(* fs.writeFileSync throws (the file cannot be opened for writing): the   *)
(* file keeps its content and the exception leaves saveCheckpoint         *)

(* run reaches an await with a rejected promise in activePromises:        *)
(* Promise.race and Promise.all reject, and so does run                   *)
AwaitOf(l, rej) == IF l \in {"race", "all"} /\ rej # {} THEN "rejected" ELSE l

(* processItem: the save after status = processing throws, before the try *)
(* block and before the worker is called; the promise pushed to           *)
(* activePromises is rejected and its then callback never runs            *)
DispatchWriteFails ==
    /\ loop = "dispatch"
    /\ LET i == pendingItems[cursor] IN
        /\ checkpoint' = MarkProcessing(checkpoint, i)
        /\ activePromises' = activePromises \cup {i}
        /\ rejected' = rejected \cup {i}
        /\ dispatched' = dispatched \cup {i}
        /\ attemptsBefore' = [attemptsBefore EXCEPT ![i] = checkpoint.items[i].attempts]
        /\ loop' = AwaitOf(LoopAt(pendingItems, cursor + 1, activePromises \cup {i},
                                  Config(cfg)),
                           rejected \cup {i})
    /\ cursor' = cursor + 1
    /\ UNCHANGED << cfg, input, file, pendingItems, workers, runs, kills, calls,
                    completions, suspensions, alwaysThrew, failCounts, raised,
                    returned, torn, loadErrors, llm, startItems >>

(* processItem: the outcome is applied and the save of the finally block  *)
(* throws; the promise rejects and stays in activePromises                *)
SettleWriteFails(i, cp) ==
    /\ Idle
    /\ i \in activePromises /\ i \in workers
    /\ checkpoint' = cp
    /\ workers' = workers \ {i}
    /\ rejected' = rejected \cup {i}
    /\ loop' = AwaitOf(loop, rejected \cup {i})
    /\ UNCHANGED << cfg, input, file, pendingItems, cursor, activePromises,
                    runs, kills, ghosts, torn, loadErrors, llm, startItems,
                    dispatched >>

(* the for loop goes on after a rejected processItem while activePromises *)
(* is shorter than concurrency; at its next await run rejects             *)
DispatchAfterFailure ==
    /\ loop = "dispatch"
    /\ rejected # {}
    /\ LET i == pendingItems[cursor]
           cp == MarkProcessing(checkpoint, i) IN
        /\ checkpoint' = cp
        /\ file' = FlushAtDispatch(file, cp)
        /\ activePromises' = activePromises \cup {i}
        /\ workers' = workers \cup {i}
        /\ dispatched' = dispatched \cup {i}
        /\ calls' = [calls EXCEPT ![i] = @ + 1]
        /\ attemptsBefore' = [attemptsBefore EXCEPT ![i] = checkpoint.items[i].attempts]
        /\ loop' = AwaitOf(LoopAt(pendingItems, cursor + 1, activePromises \cup {i},
                                  Config(cfg)),
                           rejected)
    /\ cursor' = cursor + 1
    /\ UNCHANGED << cfg, input, pendingItems, runs, kills,
                    completions, suspensions, alwaysThrew, failCounts, raised,
                    returned, crash, llm, startItems >>

(* the process ends after run rejected *)
ExitRejected ==
    /\ loop = "rejected"
    /\ ProcessGone
    /\ rejected' = {}
    /\ UNCHANGED << kills, torn, loadErrors, llm >>

(* the for loop body while every save so far succeeded *)
DispatchClean == rejected = {} /\ Dispatch

NextWriteFail ==
    \/ Start
    \/ DispatchClean
    \/ DispatchAfterFailure
    \/ DispatchWriteFails
    \/ \E i \in ItemIds : Outcome(i)
    \/ \E i \in ItemIds, r \in Results :
          SettleWriteFails(i, ApplyResult(checkpoint, i, r))
    \/ \E i \in ItemIds, m \in Messages :
          SettleWriteFails(i, ApplyError(checkpoint, i, WorkerMessage(m), Config(cfg)))
    \/ \E i \in ItemIds : WorkerSettlesLate(i)
    \/ Finish
    \/ Exit
    \/ ExitRejected

SpecWriteFail == Init /\ [][NextWriteFail]_vars

(* -------------------- workers that use ctx.log ------------------------ *)
LogMessages == {"m1", "m2"}

(* itemLogger.log(msg): item.logs = item.logs || []; item.logs.push(msg) *)
ContextLog(cp, i, msg) == [cp EXCEPT !.items[i].logs = Append(@, msg)]

(* the worker of item i is running: in its synchronous start, inside      *)
(* processItem, or later whenever the event loop is free                  *)
WorkerRuns(i) ==
    /\ i \in workers
    /\ \/ loop \in {"race", "all", "done"}
       \/ loop = "dispatch" /\ cursor > 1 /\ i = pendingItems[cursor - 1]

(* the worker of item i calls ctx.log(msg) *)
WorkerLogs(i, msg) ==
    /\ WorkerRuns(i)
    /\ Len(checkpoint.items[i].logs) < MaxLogs
    /\ checkpoint' = ContextLog(checkpoint, i, msg)
    /\ UNCHANGED << cfg, input, file, loop, pendingItems, cursor,
                    activePromises, workers, runs, kills, ghosts, crash, llm,
                    startItems, dispatched >>

NextLogs ==
    \/ NextLive
    \/ \E i \in ItemIds, msg \in LogMessages : WorkerLogs(i, msg)

SpecLogs == Init /\ [][NextLogs]_vars

(* ------------- workers that throw an error like the sentinel ---------- *)
(* an Error that carries the message of AgentBridgeError without being an *)
(* instance of it (a worker that wraps or copies the error it caught)     *)
LookalikeError == ErrorOf("AGENT_BRIDGE_REQUIRED")

WorkerThrowsLookalike(i) == WorkerRejects(i, LookalikeError)

(* values that are not Errors *)
NonErrors == {ThrownValue("string", "oops"), ThrownValue("number", 42)}

WorkerThrowsValue(i, v) == WorkerRejects(i, v)

NextClassify ==
    \/ NextLive
    \/ \E i \in ItemIds : WorkerThrowsLookalike(i)
    \/ \E i \in ItemIds, v \in NonErrors : WorkerThrowsValue(i, v)

SpecClassify == Init /\ [][NextClassify]_vars

(* ------------------- runs with an external supervisor ------------------ *)
(* between two processes a supervisor edits the checkpoint file: an item  *)
(* awaiting the agent is reset to pending so that the next run takes it   *)
SupervisorResets(i) ==
    /\ loop = "down"
    /\ ~torn
    /\ FileExists
    /\ i \in Indices(file[1].items)
    /\ file[1].items[i].status = "awaiting_agent"
    /\ file' = << [file[1] EXCEPT !.items[i].status = "pending"] >>
    /\ UNCHANGED << cfg, input, checkpoint, loop, pendingItems, cursor,
                    activePromises, workers, runs, kills, ghosts, crash, llm,
                    startItems, dispatched >>

NextSupervised ==
    \/ Next
    \/ \E i \in ItemIds : SupervisorResets(i)

SpecSupervised == Init /\ [][NextSupervised]_vars

(* the supervisor fulfils a suspended item in the checkpoint file itself: *)
(* it writes the answer as output and sets status completed               *)
SupervisorAnswer == "answer"

SupervisorCompletes(i) ==
    /\ loop = "down"
    /\ ~torn
    /\ FileExists
    /\ i \in Indices(file[1].items)
    /\ file[1].items[i].status = "awaiting_agent"
    /\ file' = << [file[1] EXCEPT !.items[i].status = "completed",
                                  !.items[i].output = SupervisorAnswer] >>
    /\ UNCHANGED << cfg, input, checkpoint, loop, pendingItems, cursor,
                    activePromises, workers, runs, kills, ghosts, crash, llm,
                    startItems, dispatched >>

NextFulfilled ==
    \/ NextSupervised
    \/ \E i \in ItemIds : SupervisorCompletes(i)

SpecFulfilled == Init /\ [][NextFulfilled]_vars

(* ------------------------- the LLM client ----------------------------- *)
engine == << cfg, input, file, checkpoint, loop, pendingItems, cursor,
             activePromises, workers, runs, kills, ghosts, crash, startItems,
             dispatched >>

NoKey == ""

(* config.apiKey and the three environment variables: unset, or a key *)
ConfigKeys == {NoKey, "kc"}
Environments ==
    [ OPENAI_API_KEY : {NoKey, "ko"}, ANTHROPIC_API_KEY : {NoKey, "ka"},
      GEMINI_API_KEY : {NoKey, "kg"} ]

(* a || b on strings: the empty string is falsy *)
OrElse(a, b) == IF a # NoKey THEN a ELSE b

(* config.apiKey || OPENAI_API_KEY || ANTHROPIC_API_KEY || GEMINI_API_KEY || '' *)
ApiKeyOf(configKey, env) ==
    OrElse(configKey,
           OrElse(env.OPENAI_API_KEY,
                  OrElse(env.ANTHROPIC_API_KEY, OrElse(env.GEMINI_API_KEY, NoKey))))

DefaultRetries == 3
RetriesValues == {0, 1, 2}
MessageLists ==
    { << [role |-> "user", content |-> "u1"] >>,
      << [role |-> "system", content |-> "s1"], [role |-> "user", content |-> "u1"] >> }
PromptValues == {"q1"}
SystemPrompts == {Absent, "sys"}

(* generate: the message list built from prompt and systemPrompt *)
GenerateMessages(prompt, systemPrompt) ==
    (IF systemPrompt # Absent THEN << [role |-> "system", content |-> systemPrompt] >>
     ELSE << >>) \o << [role |-> "user", content |-> prompt] >>

(* what executeRequest meets: a response with a status code and a body,   *)
(* or an error event of the request with a code                           *)
Marker == "RATE_LIMIT_OR_SERVER_ERROR"
Bodies == {"json", "text", Marker}
StatusCodes == {200, 400, 429, 500, 503}
ErrorCodes == {"ECONNRESET", "ENOTFOUND"}
NoResponse == [kind |-> "none", statusCode |-> 0, body |-> "text", code |-> Absent]
Responses ==
    [kind : {"response"}, statusCode : {400}, body : Bodies \ {"json"}, code : {Absent}]
        \cup [kind : {"response"}, statusCode : {200}, body : Bodies \ {Marker},
              code : {Absent}]
        \cup [kind : {"response"}, statusCode : StatusCodes \ {200, 400},
              body : {"text"}, code : {Absent}]
        \cup [kind : {"error"}, statusCode : {0}, body : {"text"}, code : ErrorCodes]

(* new LLMClient(config) in environment env; the fields after apiKey are  *)
(* the arguments and locals of the latest chat call, the number of        *)
(* requests it issued, the waits it made and the latest response          *)
NewClient(configKey, env) ==
    [ pc |-> "ready", configKey |-> configKey, env |-> env,
      apiKey |-> ApiKeyOf(configKey, env),
      via |-> "none", messages |-> << >>, given |-> << >>, retries |-> 0, i |-> 0,
      requests |-> 0, delays |-> << >>, response |-> NoResponse,
      error |-> Absent, content |-> Absent ]

(* error messages are sequences of the pieces the template strings join;  *)
(* the message of JSON.parse's SyntaxError quotes at most the first       *)
(* characters of the text, never the whole of it                          *)
RequestError(message, code) ==
    [ class |-> "Error", message |-> message, messages |-> Absent, code |-> code ]

(* executeRequest: the value it resolves with, or the error it rejects with *)
ExecuteRequest(r) ==
    IF r.kind = "error"
    THEN [ok |-> FALSE, value |-> RequestError(<< "socket", r.code >>, r.code)]
    ELSE IF r.statusCode = 429 \/ r.statusCode >= 500
    THEN [ok |-> FALSE,
          value |-> RequestError(<< Marker, ":", ToString(r.statusCode) >>, Absent)]
    ELSE IF r.statusCode >= 400
    THEN [ok |-> FALSE,
          value |-> RequestError(<< "LLM Error (", ToString(r.statusCode), "): ", r.body >>, Absent)]
    ELSE IF r.body = "json"
    THEN [ok |-> TRUE, value |-> "content"]
    ELSE [ok |-> FALSE,
          value |-> RequestError(<< "Failed to parse LLM response: ", "SyntaxError" >>,
                                 Absent)]

(* err.message.includes(text) *)
Includes(message, text) == \E k \in Indices(message) : message[k] = text

(* err.message.includes('RATE_LIMIT_OR_SERVER_ERROR') || err.code === 'ECONNRESET' *)
IsRetryable(err) == Includes(err.message, Marker) \/ err.code = "ECONNRESET"

(* Math.pow(2, i) * 1000 *)
Delay(i) == (2 ^ i) * 1000

(* variant: the sentinel is raised without the messages *)
ChatStarts_DropsMessages(c, via, given, messages, retries) ==
    [c EXCEPT !.pc = IF c.apiKey = NoKey THEN "thrown" ELSE "request",
              !.via = via, !.given = given, !.messages = messages,
              !.retries = retries, !.i = 0,
              !.requests = IF c.apiKey = NoKey THEN 0 ELSE 1,
              !.delays = << >>, !.response = NoResponse,
              !.error = IF c.apiKey = NoKey THEN AgentBridgeErrorOf(<< >>) ELSE Absent,
              !.content = Absent]

(* chat(messages, retries) up to its first await: without a key it throws *)
(* AgentBridgeError(messages); with one it issues the first request       *)
ChatStarts(c, via, given, messages, retries) ==
    IF c.apiKey = NoKey
    THEN [c EXCEPT !.pc = "thrown", !.via = via, !.given = given, !.messages = messages,
                   !.retries = retries, !.i = 0, !.requests = 0,
                   !.delays = << >>, !.response = NoResponse,
                   !.error = AgentBridgeErrorOf(messages), !.content = Absent]
    ELSE [c EXCEPT !.pc = "request", !.via = via, !.given = given, !.messages = messages,
                   !.retries = retries, !.i = 0, !.requests = 1,
                   !.delays = << >>, !.response = NoResponse,
                   !.error = Absent, !.content = Absent]

Callable == llm.pc \in {"ready", "resolved", "thrown"}

(* client.chat(messages, retries) *)
Chat(messages, retries) ==
    /\ Callable
    /\ llm' = ChatStarts(llm, "chat", messages, messages, retries)
    /\ UNCHANGED engine

(* client.generate(prompt, systemPrompt): chat with the default retries *)
Generate(prompt, systemPrompt) ==
    /\ Callable
    /\ llm' = ChatStarts(llm, "generate", << prompt, systemPrompt >>,
                         GenerateMessages(prompt, systemPrompt), DefaultRetries)
    /\ UNCHANGED engine

(* the request under way settles with r: the body of the for loop from    *)
(* the await of executeRequest to return, throw or the start of the wait  *)
RequestSettles(r) ==
    /\ llm.pc = "request"
    /\ LET res == ExecuteRequest(r)
           c == [llm EXCEPT !.response = r] IN
        llm' = IF res.ok
               THEN [c EXCEPT !.pc = "resolved", !.content = res.value]
               ELSE IF IsRetryable(res.value) /\ llm.i < llm.retries
               THEN [c EXCEPT !.pc = "backoff", !.delays = Append(@, Delay(llm.i))]
               ELSE [c EXCEPT !.pc = "thrown", !.error = res.value]
    /\ UNCHANGED engine

(* the timer of the wait fires: continue, i++, the next executeRequest *)
BackoffElapses ==
    /\ llm.pc = "backoff"
    /\ llm' = [llm EXCEPT !.pc = "request", !.i = @ + 1, !.requests = @ + 1]
    /\ UNCHANGED engine

InitLLM ==
    /\ InitEngine({<< >>})
    /\ cfg = [maxRetries |-> 0, concurrency |-> 1, itemTimeoutMs |-> 0]
    /\ llm \in {NewClient(k, env) : k \in ConfigKeys, env \in Environments}

NextLLM ==
    \/ \E m \in MessageLists, r \in RetriesValues : Chat(m, r)
    \/ \E p \in PromptValues, sp \in SystemPrompts : Generate(p, sp)
    \/ \E r \in Responses : RequestSettles(r)
    \/ BackoffElapses

SpecLLM == InitLLM /\ [][NextLLM]_vars

(* ---------------------------- type check ------------------------------ *)
Statuses == {"pending", "processing", "completed", "failed", "awaiting_agent"}

TypeOK ==
    /\ loop \in {"down", "dispatch", "race", "all", "done", "rejected"}
    /\ rejected \subseteq activePromises
    /\ \A i \in Indices(checkpoint.items) : checkpoint.items[i].status \in Statuses
    /\ activePromises \subseteq Indices(checkpoint.items)
    /\ workers \subseteq Indices(checkpoint.items)


(* ====================================================================== *)
(*                               Claims                                   *)
(* ====================================================================== *)
FileItems == IF FileExists THEN file[1].items ELSE << >>

Running == loop # "down"

IsProcessing(it) == it.status = "processing"

IsCompleted(it) == it.status = "completed"

FileCompleted(i) == i \in Indices(FileItems) /\ FileItems[i].status = "completed"

FileAwaiting(i) == i \in Indices(FileItems) /\ FileItems[i].status = "awaiting_agent"

(* ------------------------------- C1 ----------------------------------- *)
(* C1: exactly-once completion. Once the checkpoint file shows an item as *)
(* completed, no step calls the worker on it again, no step changes its   *)
(* status or output on file, and the item has caused exactly one          *)
(* completedCount++, over any sequence of runs and kills.                 *)
C1_ExactlyOnceCompletion ==
    [][\A i \in ItemIds :
          FileCompleted(i) =>
              /\ FileCompleted(i)'
              /\ FileItems'[i].output = FileItems[i].output
              /\ calls'[i] = calls[i]
              /\ completions[i] = 1
              /\ completions'[i] = 1]_vars

(* a later run, after a kill, has finished over an item completed earlier *)
C1_Witness ==
    \E i \in ItemIds :
        /\ FileCompleted(i)
        /\ loop = "done" /\ runs = 2 /\ kills = 1
        /\ startItems[i].status = "completed"
        /\ dispatched # {}

(* ------------------------------- C2 ----------------------------------- *)
(* C2 (as stated): at every instant of every run, resumed runs included,  *)
(* the number of items with status processing in the in-memory checkpoint *)
(* and in the checkpoint file is at most concurrency.                     *)
C2_ProcessingAtMostConcurrency ==
    /\ Running => CountWhere(checkpoint.items, IsProcessing) <= cfg.concurrency
    /\ CountWhere(FileItems, IsProcessing) <= cfg.concurrency

InFlight(items) == {i \in Indices(items) : i \in dispatched /\ IsProcessing(items[i])}

Stranded(items) == {i \in Indices(items) : i \notin dispatched /\ IsProcessing(items[i])}

(* C2 (amended): at every instant of every run the number of items        *)
(* dispatched by that run whose status is processing is at most           *)
(* concurrency, in memory and on file; every other processing item was    *)
(* already processing in the checkpoint the run loaded.                   *)
C2_InFlightAtMostConcurrency ==
    Running =>
        /\ Cardinality(InFlight(checkpoint.items)) <= cfg.concurrency
        /\ FileExists => Cardinality(InFlight(FileItems)) <= cfg.concurrency
        /\ \A i \in Stranded(checkpoint.items) : startItems[i].status = "processing"
        /\ InFlight(checkpoint.items) = activePromises

(* a resumed run at its concurrency limit beside an item stranded earlier *)
C2_Witness ==
    /\ loop = "race" /\ kills >= 1
    /\ Cardinality(InFlight(checkpoint.items)) = cfg.concurrency
    /\ Stranded(checkpoint.items) # {}

(* ------------------------------- C3 ----------------------------------- *)
(* C3: after every flush, in every run, completedCount on file equals the *)
(* number of items on file whose status is completed.                     *)
C3_CompletedCount ==
    FileExists => file[1].completedCount = CountWhere(FileItems, IsCompleted)

(* a resumed run has flushed a second completion *)
C3_Witness ==
    /\ FileExists /\ runs = 2 /\ kills = 1 /\ Running
    /\ file[1].completedCount = 2
    /\ \E i \in dispatched : FileCompleted(i)

(* ------------------------------- C4 ----------------------------------- *)
IsTerminallyFailed(it) == it.status = "failed" /\ it.attempts >= cfg.maxRetries

(* C4: after every flush, in every run, failedCount on file equals the    *)
(* number of items on file whose status is failed and whose attempts is   *)
(* at least the configured maxRetries.                                    *)
C4_FailedCount ==
    FileExists => file[1].failedCount = CountWhere(FileItems, IsTerminallyFailed)

(* the same count with the budget the engine uses (maxRetries || 3)       *)
C4_FailedCountEngineBudget ==
    FileExists =>
        file[1].failedCount =
            Cardinality({i \in Indices(FileItems) :
                            /\ FileItems[i].status = "failed"
                            /\ FileItems[i].attempts >= maxRetriesOf(cfg)})

(* ------------------------------- C5 ----------------------------------- *)
SkippedAtStart(it) ==
    \/ it.status \in {"completed", "awaiting_agent"}
    \/ it.status = "failed" /\ it.attempts >= cfg.maxRetries

(* C5: eligibility at run start. An item that is completed, awaiting      *)
(* agent, or failed with attempts >= maxRetries when the run starts is    *)
(* never dispatched in that run; every other item has been dispatched     *)
(* when the run finishes.                                                 *)
C5_Eligibility ==
    \A i \in Indices(startItems) :
        /\ SkippedAtStart(startItems[i]) => i \notin dispatched
        /\ (loop = "done" /\ ~SkippedAtStart(startItems[i])) => i \in dispatched

(* the same statement for a configured maxRetries >= 1                    *)
C5_EligibilityPositive ==
    cfg.maxRetries >= 1 => C5_Eligibility

(* ------------------------------- C6 ----------------------------------- *)
Min(a, b) == IF a <= b THEN a ELSE b

(* C6: retry budget. For an item whose every outcome is an error, over    *)
(* runs that all return (no kill): the worker has been called             *)
(* min(runs, maxRetries) times when a run has ended, never more than      *)
(* maxRetries times, and once that many calls have been applied the item  *)
(* is failed on file with attempts = maxRetries and counted once.         *)
C6_RetryBudget ==
    \A i \in Indices(input) :
        (alwaysThrew[i] /\ kills = 0) =>
            /\ calls[i] <= cfg.maxRetries
            /\ loop \in {"done", "down"} => calls[i] = Min(runs, cfg.maxRetries)
            /\ (calls[i] = cfg.maxRetries /\ i \notin activePromises /\ runs > 0
                    /\ i \in Indices(FileItems)) =>
                   /\ FileItems[i].status = "failed"
                   /\ FileItems[i].attempts = cfg.maxRetries
                   /\ failCounts[i] = 1

(* the same statement for a configured maxRetries >= 1                    *)
C6_RetryBudgetPositive ==
    cfg.maxRetries >= 1 => C6_RetryBudget

(* ------------------------------- C7 ----------------------------------- *)
(* C7: attempts bound. In every reachable state, every item in memory and *)
(* on file has 0 <= attempts <= maxRetries + K, K the number of           *)
(* suspension transitions of that item.                                   *)
C7_AttemptsBound ==
    /\ \A i \in Indices(checkpoint.items) :
           /\ checkpoint.items[i].attempts >= 0
           /\ checkpoint.items[i].attempts <= cfg.maxRetries + suspensions[i]
    /\ \A i \in Indices(FileItems) :
           /\ FileItems[i].attempts >= 0
           /\ FileItems[i].attempts <= cfg.maxRetries + suspensions[i]

(* the same bound for maxRetries >= 1: broken by a kill that strands an   *)
(* item in processing with attempts = maxRetries                          *)
C7_AttemptsBoundPositive ==
    cfg.maxRetries >= 1 => C7_AttemptsBound

(* the same bound for maxRetries >= 1 and no kill: it holds, so the bound *)
(* is broken only by maxRetries = 0 and by items stranded in processing   *)
C7_AttemptsBoundNoKill ==
    (cfg.maxRetries >= 1 /\ kills = 0) => C7_AttemptsBound

(* ------------------------------- C8 ----------------------------------- *)
SuspensionApplied(i) == suspensions'[i] = suspensions[i] + 1

(* C8: suspension transition. The step that applies an AgentBridgeError   *)
(* with payload p to an item leaves it on file with status awaiting_agent *)
(* and pendingPrompt = p; and while an item is awaiting_agent on file no  *)
(* step calls the worker on it, in that run or a later one.               *)
C8_SuspensionTransition ==
    [][\A i \in ItemIds :
          /\ SuspensionApplied(i) =>
                 /\ FileAwaiting(i)'
                 /\ FileItems'[i].pendingPrompt = raised'[i]
                 /\ checkpoint'.items[i].status = "awaiting_agent"
                 /\ checkpoint'.items[i].pendingPrompt = raised'[i]
          /\ FileAwaiting(i) => calls'[i] = calls[i]]_vars

(* a later run has finished over an item suspended by an earlier run *)
C8_Witness ==
    \E i \in ItemIds :
        /\ FileAwaiting(i) /\ FileItems[i].pendingPrompt = "p2"
        /\ loop = "done" /\ runs = 2
        /\ startItems[i].status = "awaiting_agent"
        /\ dispatched # {}
        /\ calls[i] = 1

(* ------------------------------- C9 ----------------------------------- *)
(* C9: a suspension does not consume the retry budget. The step that      *)
(* applies a suspension leaves the item's attempts at its value before    *)
(* the dispatch of that invocation, and leaves failedCount and the item's *)
(* lastError as they were, in memory and on file.                         *)
C9_SuspensionKeepsBudget ==
    [][\A i \in ItemIds :
          SuspensionApplied(i) =>
              /\ checkpoint'.items[i].attempts = attemptsBefore[i]
              /\ FileItems'[i].attempts = attemptsBefore[i]
              /\ checkpoint'.failedCount = checkpoint.failedCount
              /\ file'[1].failedCount = file[1].failedCount
              /\ checkpoint'.items[i].lastError = checkpoint.items[i].lastError
              /\ FileItems'[i].lastError = FileItems[i].lastError]_vars

(* an item that failed once is suspended by a later run: attempts and     *)
(* lastError are those of the failure                                     *)
C9_Witness ==
    \E i \in ItemIds :
        /\ FileAwaiting(i)
        /\ suspensions[i] = 1
        /\ FileItems[i].attempts = 1 /\ attemptsBefore[i] = 1
        /\ FileItems[i].lastError = WorkerMessage("boom")

(* ------------------------------- C10 ---------------------------------- *)
(* C10: monotonic attempts. Between two successive contents of the        *)
(* checkpoint file, within a run or across runs, no item's attempts       *)
(* decreases, except in the flush that applies a suspension to the item,  *)
(* where it decreases by exactly one.                                     *)
C10_MonotonicAttempts ==
    [][(FileExists /\ FileExists') =>
          \A i \in Indices(FileItems) :
              IF SuspensionApplied(i)
              THEN FileItems'[i].attempts = FileItems[i].attempts - 1
              ELSE FileItems'[i].attempts >= FileItems[i].attempts]_vars

(* a suspension has been flushed for an item whose attempts was 2 on file *)
C10_Witness ==
    \E i \in ItemIds :
        /\ FileAwaiting(i)
        /\ suspensions[i] = 1
        /\ FileItems[i].attempts = 1
        /\ calls[i] = 2

(* ------------------------------- C11 ---------------------------------- *)
(* C11, as stated: in every content of the checkpoint file an item has an *)
(* output exactly when its status is completed, whatever the worker       *)
(* returned, a worker that returns no value included.                     *)
C11_OutputIffCompleted ==
    \A i \in Indices(FileItems) :
        (FileItems[i].output # Absent) <=> IsCompleted(FileItems[i])

(* C11, amended: in every content of the checkpoint file an item that has *)
(* an output is completed and the output is the value its worker          *)
(* returned; a completed item has an output exactly when the worker       *)
(* returned a value other than undefined.                                 *)
C11_OutputOfCompleted ==
    \A i \in Indices(FileItems) :
        /\ FileItems[i].output # Absent =>
              IsCompleted(FileItems[i]) /\ FileItems[i].output = returned[i]
        /\ IsCompleted(FileItems[i]) =>
              (FileItems[i].output # Absent <=> returned[i] # Undefined)

(* one item completed by a worker that returned a value, another by a     *)
(* worker that returned undefined, both on file                           *)
C11_Witness ==
    \E i, j \in ItemIds :
        /\ FileCompleted(i) /\ FileItems[i].output = "r1"
        /\ FileCompleted(j) /\ returned[j] = Undefined
        /\ FileItems[j].output = Absent

(* ------------------------------- C12 ---------------------------------- *)
(* C12: in every content of the checkpoint file an item has pendingPrompt *)
(* set exactly when it has been suspended and has not since been          *)
(* processed to completed or failed; an item that was suspended, reset to *)
(* pending by a supervisor and then processed to completed or failed has  *)
(* no pendingPrompt.                                                      *)
C12_PendingPromptIffSuspended ==
    \A i \in Indices(FileItems) :
        (FileItems[i].pendingPrompt # Absent) <=>
            /\ suspensions[i] > 0
            /\ FileItems[i].status \notin {"completed", "failed"}

(* ------------------------------- C13 ---------------------------------- *)
(* C13: durability. Once the completion of an item has been flushed,      *)
(* wherever the process terminates afterwards, the checkpoint file loads  *)
(* and shows the item completed with the output the worker returned.      *)
C13_Durability ==
    \A i \in ItemIds :
        completions[i] >= 1 =>
            /\ ~torn
            /\ FileCompleted(i)
            /\ FileItems[i].output = StringifyField(returned[i])

(* ------------------------------- C16 ---------------------------------- *)
(* C16: crash-safe save. Whenever the process is killed during a save,    *)
(* the file is left holding a complete checkpoint, so no later load meets *)
(* an empty or partial file.                                              *)
C16_CrashSafeSave == ~torn /\ loadErrors = 0

(* ------------------------------- C14 ---------------------------------- *)
(* the status an uninterrupted run leaves on an item, given what the      *)
(* worker does with its data                                              *)
StatusFor(data, c) ==
    CASE data = "ok" -> "completed"
      [] data = "boom" -> "failed"
      [] data = "ask" -> "awaiting_agent"
      [] data = "slow" -> IF TimerArmed(c) THEN "failed" ELSE "completed"

StatusCount(items, st) ==
    Cardinality({i \in Indices(items) : items[i].status = st})

ExpectedCount(st) ==
    Cardinality({i \in Indices(input) : StatusFor(input[i], cfg) = st})

SameStatuses(items) ==
    \A st \in Statuses : StatusCount(items, st) = ExpectedCount(st)

(* C14: resume equivalence. With a worker whose outcome is a function of  *)
(* the item data, a single uninterrupted run ends with the statuses the   *)
(* worker determines, and a run killed at any point followed by a second  *)
(* run ends with the same multiset of statuses: the second run does not   *)
(* die loading the checkpoint, and when it returns the statuses are those *)
(* of the uninterrupted run.                                              *)
C14_ResumeEquivalence ==
    /\ (loop = "done" /\ kills <= 1 /\ runs = kills + 1) =>
           SameStatuses(checkpoint.items)
    /\ (kills = 1 /\ runs = 2) => loadErrors = 0

(* the same, for second runs that could load the checkpoint *)
C14_ResumeEquivalenceLoaded ==
    (loop = "done" /\ kills <= 1 /\ runs = kills + 1) =>
        SameStatuses(checkpoint.items)

(* ------------------------------- C15 ---------------------------------- *)
PendingSet == {pendingItems[k] : k \in Indices(pendingItems)}

(* C15: crash resume of a stranded item. An item that the checkpoint      *)
(* loaded by a run shows as processing (flushed so by a killed process)   *)
(* is among the items the run will process; the run calls the worker on   *)
(* it again, from an attempts value that already counts the lost          *)
(* invocation, and increments attempts once more at the dispatch; the run *)
(* does not return before. An item the loaded checkpoint shows as         *)
(* completed is not among the items to process and is never dispatched.   *)
C15_StrandedResumed ==
    \A i \in Indices(startItems) :
        /\ IsProcessing(startItems[i]) =>
              /\ i \in PendingSet
              /\ startItems[i].attempts >= 1
              /\ loop = "done" => i \in dispatched
              /\ i \in dispatched =>
                    /\ calls[i] >= 2
                    /\ attemptsBefore[i] = startItems[i].attempts
              /\ i \in activePromises =>
                    /\ IsProcessing(FileItems[i])
                    /\ FileItems[i].attempts = startItems[i].attempts + 1
        /\ IsCompleted(startItems[i]) =>
              i \notin PendingSet /\ i \notin dispatched

(* a resumed run has loaded one item as completed and one as processing   *)
(* with attempts 1, and has dispatched the latter: attempts 2 on file     *)
C15_Witness ==
    \E i, j \in Indices(startItems) :
        /\ kills >= 1
        /\ IsCompleted(startItems[j]) /\ j \notin dispatched
        /\ IsProcessing(startItems[i]) /\ startItems[i].attempts = 1
        /\ i \in activePromises
        /\ FileItems[i].attempts = 2 /\ calls[i] = 2

(* ------------------------------- C17 ---------------------------------- *)
(* what JSON.parse reads back for a field held in memory *)
SameField(inMemory, onFile) == StringifyField(inMemory) = onFile

ItemsAgree(items, fileItems) ==
    /\ Indices(items) = Indices(fileItems)
    /\ \A i \in Indices(items) :
          /\ items[i].status = fileItems[i].status
          /\ items[i].attempts = fileItems[i].attempts
          /\ SameField(items[i].output, fileItems[i].output)
          /\ items[i].lastError = fileItems[i].lastError
          /\ SameField(items[i].pendingPrompt, fileItems[i].pendingPrompt)

(* C17: flush on every transition. Whenever run has yielded (it awaits    *)
(* Promise.race or Promise.all), the checkpoint file agrees with the      *)
(* in-memory checkpoint on status, attempts, output, lastError and        *)
(* pendingPrompt of every item and on completedCount and failedCount;     *)
(* while no file has been written yet, the in-memory checkpoint is still  *)
(* the one built from the input, so no change exists only in memory.      *)
C17_FlushOnEveryTransition ==
    Yielded =>
        IF FileExists
        THEN /\ ItemsAgree(checkpoint.items, FileItems)
             /\ checkpoint.completedCount = file[1].completedCount
             /\ checkpoint.failedCount = file[1].failedCount
        ELSE checkpoint = NewCheckpoint(input, runs) /\ dispatched = {}

(* run has yielded with one item in flight (processing, attempts 1) and   *)
(* one item completed by a worker that returned undefined, both on file   *)
C17_Witness ==
    /\ Yielded
    /\ FileExists
    /\ \E i, j \in Indices(checkpoint.items) :
          /\ i \in activePromises /\ IsProcessing(FileItems[i])
          /\ FileItems[i].attempts = 1
          /\ IsCompleted(FileItems[j])
          /\ checkpoint.items[j].output = Undefined
          /\ file[1].completedCount = 1

(* ------------------------------- C18 ---------------------------------- *)
(* C18: flush at finalization. Once run has returned, a checkpoint file   *)
(* exists and holds the in-memory checkpoint, also for an empty input and *)
(* for a run in which no item was eligible.                               *)
C18_FlushAtFinalization ==
    loop = "done" => FileExists /\ file = saveCheckpoint(checkpoint)

(* ------------------------------- C19 ---------------------------------- *)
(* the invocation on item i is settled by this step while its worker is   *)
(* still pending: the timer won the race                                  *)
TimedOut(i) ==
    /\ i \in activePromises /\ i \in workers
    /\ i \notin activePromises' /\ i \in workers'

IsTimeoutError(e, ms) ==
    /\ Len(e) >= 3
    /\ SubSeq(e, 1, 3) = << "Operation timed out after ", ms, "ms" >>

(* C19: timeout. A step in which the timer of an invocation fires before  *)
(* the worker settles happens only with itemTimeoutMs = N > 0, and leaves *)
(* the item failed, in memory and on file, with a lastError that begins   *)
(* with "Operation timed out after Nms" and attempts one more than before *)
(* the dispatch; with itemTimeoutMs absent or zero no item ever carries a *)
(* timeout error.                                                         *)
C19_Timeout ==
    [][/\ \A i \in ItemIds :
            TimedOut(i) =>
                /\ cfg.itemTimeoutMs > 0
                /\ checkpoint'.items[i].status = "failed"
                /\ IsTimeoutError(checkpoint'.items[i].lastError, cfg.itemTimeoutMs)
                /\ checkpoint'.items[i].attempts = attemptsBefore[i] + 1
                /\ FileItems'[i] = StringifyItem(checkpoint'.items[i])
       /\ cfg.itemTimeoutMs = 0 =>
            \A i \in Indices(FileItems') :
                \A ms \in TimeoutValues : ~IsTimeoutError(FileItems'[i].lastError, ms)
      ]_vars

(* an item failed by the timer of 100 ms at its second attempt, flushed,  *)
(* while its worker has not settled                                       *)
C19_Witness ==
    \E i \in Indices(FileItems) :
        /\ cfg.itemTimeoutMs = 100
        /\ FileItems[i].status = "failed"
        /\ IsTimeoutError(FileItems[i].lastError, 100)
        /\ FileItems[i].attempts = 2 /\ attemptsBefore[i] = 1
        /\ i \in workers \ activePromises

(* ------------------------------- C20 ---------------------------------- *)
EligibleAtStart(i) ==
    /\ Running
    /\ i \in Indices(startItems)
    /\ ~SkippedAtStart(startItems[i])

(* C20: failure isolation. Provided every invocation settles or times     *)
(* out, every item that was eligible when a run started is eventually     *)
(* dispatched in that run, whatever errors and timeouts the items before  *)
(* it met, and the run returns.                                           *)
C20_FailureIsolation ==
    \A i \in ItemIds :
        EligibleAtStart(i) ~> (i \in dispatched /\ <>(loop = "done"))

(* with concurrency 1, the first item failed with a worker error at its   *)
(* only attempt so far and the run went on to dispatch the second item    *)
(* and returned                                                           *)
C20_Witness ==
    /\ concurrencyOf(Config(cfg)) = 1
    /\ loop = "done"
    /\ dispatched = {1, 2}
    /\ checkpoint.items[1].status = "failed"
    /\ checkpoint.items[1].lastError = WorkerMessage("boom")
    /\ checkpoint.items[2].status = "failed"
    /\ IsTimeoutError(checkpoint.items[2].lastError, cfg.itemTimeoutMs)

(* ------------------------------- C21 ---------------------------------- *)
(* C21: FIFO dispatch. In every state of a run, for eligible items i      *)
(* before j in the items sequence: if j has been set to processing and    *)
(* its worker started in this run, so has i (one item is dispatched per   *)
(* step, so i was dispatched first). This holds for every concurrency and *)
(* every completion order.                                                *)
C21_FifoDispatch ==
    \A i, j \in Indices(startItems) :
        (i < j /\ EligibleAtStart(i) /\ j \in dispatched) => i \in dispatched

(* with concurrency 2 the second item has completed while the first,      *)
(* dispatched before it, is still in flight                               *)
C21_Witness ==
    /\ concurrencyOf(Config(cfg)) = 2
    /\ dispatched = {1, 2}
    /\ 1 \in activePromises
    /\ IsProcessing(checkpoint.items[1])
    /\ IsCompleted(checkpoint.items[2])

(* ------------------------------- C22 ---------------------------------- *)
(* C22: no intra-run retry. A step that calls the worker on an item calls *)
(* it once and the item had not been dispatched by the running process    *)
(* before; an item that the running process has dispatched and that is    *)
(* failed stays failed, with the same attempts, as long as that process   *)
(* runs, whatever its attempts and maxRetries are.                        *)
C22_NoIntraRunRetry ==
    [][\A i \in ItemIds :
          /\ calls'[i] # calls[i] =>
                calls'[i] = calls[i] + 1 /\ i \notin dispatched
          /\ ( /\ Running /\ Running'
               /\ i \in dispatched
               /\ checkpoint.items[i].status = "failed" ) =>
                /\ checkpoint'.items[i].status = "failed"
                /\ checkpoint'.items[i].attempts = checkpoint.items[i].attempts
                /\ FileItems'[i].status = "failed"
      ]_vars

(* a second run calls the worker again on an item that failed under the   *)
(* budget in the first run, after the first run had gone on to return     *)
C22_Witness ==
    \E i \in ItemIds :
        /\ runs = 2 /\ kills = 0
        /\ maxRetriesOf(Config(cfg)) = 2
        /\ i \in activePromises
        /\ calls[i] = 2
        /\ startItems[i].status = "failed" /\ startItems[i].attempts = 1

(* ------------------------------- C23 ---------------------------------- *)
TerminalForRun(it) == it.status \in {"completed", "awaiting_agent", "failed"}

(* C23: termination. Provided every invocation settles or its timer       *)
(* fires, a run that is not killed eventually returns; whenever a run has *)
(* returned, every item that was eligible when it started is completed,   *)
(* awaiting_agent or failed and no item is processing, in memory and on   *)
(* file, items stranded in processing by an earlier kill included.        *)
C23_Termination ==
    /\ Running ~> (loop = "done" \/ ~Running)
    /\ [](loop = "done" =>
            /\ \A i \in ItemIds :
                  EligibleAtStart(i) =>
                      /\ TerminalForRun(checkpoint.items[i])
                      /\ TerminalForRun(FileItems[i])
            /\ \A i \in Indices(checkpoint.items) :
                  /\ ~IsProcessing(checkpoint.items[i])
                  /\ ~IsProcessing(FileItems[i]))

(* a run resumed after a kill has returned: the item the kill had left    *)
(* in processing was failed by its timer, the other item is completed     *)
C23_Witness ==
    /\ loop = "done"
    /\ kills = 1
    /\ \E i, j \in Indices(startItems) :
          /\ IsProcessing(startItems[i])
          /\ checkpoint.items[i].status = "failed"
          /\ IsTimeoutError(checkpoint.items[i].lastError, cfg.itemTimeoutMs)
          /\ IsCompleted(checkpoint.items[j])

(* ------------------------------- C24 ---------------------------------- *)
(* a change of status from item a to item b, with the retry budget        *)
LegalChange(a, b, budget) ==
    \/ a.status = "pending" /\ b.status = "processing"
    \/ a.status = "failed" /\ a.attempts < budget /\ b.status = "processing"
    \/ a.status = "processing"
          /\ b.status \in {"completed", "failed", "awaiting_agent"}

StatusChanges(budget) ==
    /\ \A i \in Indices(FileItems) \cap Indices(FileItems') :
          FileItems'[i].status # FileItems[i].status =>
              LegalChange(FileItems[i], FileItems'[i], budget)
    /\ (Running /\ Running') =>
          \A i \in Indices(checkpoint.items) :
              checkpoint'.items[i].status # checkpoint.items[i].status =>
                  LegalChange(checkpoint.items[i], checkpoint'.items[i], budget)

(* C24: legal transitions only. Every change of an item's status, in the  *)
(* checkpoint file and in the memory of a running process, is one of      *)
(* pending -> processing, failed with attempts < maxRetries ->            *)
(* processing, processing -> completed, failed or awaiting_agent; so no   *)
(* item leaves completed, awaiting_agent or failed with attempts >=       *)
(* maxRetries.                                                            *)
C24_LegalTransitions == [][StatusChanges(cfg.maxRetries)]_vars

(* the same with the budget the engine compares attempts with *)
C24_LegalTransitionsEngineBudget == [][StatusChanges(maxRetriesOf(Config(cfg)))]_vars

(* ------------------------------- C25 ---------------------------------- *)
(* C25: job identity is stable. From the first save on, every content of  *)
(* the checkpoint file has the jobId and the startTime of the first one,  *)
(* whichever process writes it.                                           *)
C25_JobIdentityStable ==
    [][(FileExists /\ FileExists') =>
          /\ file'[1].jobId = file[1].jobId
          /\ file'[1].startTime = file[1].startTime]_vars

(* the second process has resumed the job created by the first and has    *)
(* saved the checkpoint: the file still carries the first process's clock *)
C25_Witness ==
    /\ runs = 2
    /\ dispatched # {}
    /\ FileExists
    /\ file[1].jobId = JobId(1) /\ file[1].startTime = 1

(* ------------------------------- C26 ---------------------------------- *)
SameIdentity(items, others) ==
    /\ Len(items) = Len(others)
    /\ \A i \in Indices(items) :
          items[i].id = others[i].id /\ items[i].data = others[i].data

CreatedFrom(items, inputData) ==
    /\ Len(items) = Len(inputData)
    /\ \A i \in Indices(items) :
          /\ items[i].id = << "item-", i - 1 >>
          /\ items[i].data = inputData[i]
          /\ items[i].status = "pending"
          /\ items[i].attempts = 0

Constructed == loop = "down" /\ loop' # "down"

(* C26: the item set is fixed at creation. A process that finds no        *)
(* checkpoint file builds the items from its input: ids item-0 ..         *)
(* item-(n-1) in input order, pending, attempts 0. A process that finds a *)
(* file takes the items of the file, whatever its input is. No step of a  *)
(* run changes the number, the order, the id or the data of the items in  *)
(* memory, the first save writes the items as built, and no later save    *)
(* changes number, order, id or data of the items on file.                *)
C26_ItemSetFixed ==
    [][/\ (Constructed /\ ~FileExists) => CreatedFrom(checkpoint'.items, input)
       /\ (Constructed /\ FileExists) => checkpoint'.items = FileItems
       /\ (Running /\ Running') => SameIdentity(checkpoint'.items, checkpoint.items)
       /\ (~FileExists /\ FileExists') => SameIdentity(FileItems', startItems)
       /\ (FileExists /\ FileExists') => SameIdentity(FileItems', FileItems)
      ]_vars

(* a process whose input differs from the one the job was created from    *)
(* has resumed the job and saved: the file has the items of the first     *)
(* input, in its order                                                    *)
C26_Witness ==
    /\ runs = 2
    /\ dispatched # {}
    /\ input = << "b" >>
    /\ Len(FileItems) = 2
    /\ FileItems[1].id = << "item-", 0 >> /\ FileItems[1].data = "a"
    /\ FileItems[2].id = << "item-", 1 >> /\ FileItems[2].data = "b"

(* ------------------------------- C27 ---------------------------------- *)
AfterWriteFailure(concurrencies) ==
    (rejected # {} /\ Running' /\ concurrencyOf(Config(cfg)) \in concurrencies) =>
        /\ loop' # "done"
        /\ dispatched' = dispatched /\ calls' = calls
        /\ checkpoint' = checkpoint
        /\ file' = file

(* C27: infrastructure errors abort the run. Once a save of the           *)
(* checkpoint has thrown in a process, run does not return normally, no   *)
(* item is dispatched, and no step changes the in-memory checkpoint or    *)
(* the file any more (every change is followed by a save, so none is      *)
(* attempted), for every concurrency.                                     *)
C27_WriteFailureAborts == [][AfterWriteFailure(ConcurrencyValues)]_vars

(* the same for concurrency 1 only *)
C27_WriteFailureAbortsSequential == [][AfterWriteFailure({1})]_vars

(* ------------------------------- C28 ---------------------------------- *)
Failures ==
    {AgentBridgeErrorOf(p) : p \in Prompts}
        \cup {ErrorOf(m) : m \in Messages} \cup {LookalikeError}

BecomesAwaiting(i) ==
    /\ i \in Indices(checkpoint.items) /\ Running'
    /\ checkpoint.items[i].status # "awaiting_agent"
    /\ checkpoint'.items[i].status = "awaiting_agent"

(* C28: classification. A step in which the worker of an item fails       *)
(* leaves the item awaiting_agent, with the payload as pendingPrompt, if  *)
(* the failure is an AgentBridgeError, and failed otherwise, also when    *)
(* the failure carries the message of the sentinel; a step in which the   *)
(* timer fires leaves the item failed whatever the worker raises later;   *)
(* and every step that makes an item awaiting_agent is the failure of its *)
(* worker with an AgentBridgeError.                                       *)
C28_Classification ==
    [][\A i \in ItemIds :
          /\ \A e \in Failures :
                WorkerRejects(i, e) =>
                    IF e.class = "AgentBridgeError"
                    THEN /\ checkpoint'.items[i].status = "awaiting_agent"
                         /\ checkpoint'.items[i].pendingPrompt = e.messages
                         /\ FileItems'[i].status = "awaiting_agent"
                    ELSE /\ checkpoint'.items[i].status = "failed"
                         /\ checkpoint'.items[i].lastError = << e.message >>
                         /\ FileItems'[i].status = "failed"
          /\ TimerFires(i) =>
                checkpoint'.items[i].status = "failed" /\ FileItems'[i].status = "failed"
          /\ WorkerSettlesLate(i) => checkpoint'.items[i].status = "failed"
          /\ BecomesAwaiting(i) =>
                \E p \in Prompts : WorkerRejects(i, AgentBridgeErrorOf(p))
      ]_vars

(* one item failed by an Error with the message of the sentinel, another  *)
(* awaiting the agent after an AgentBridgeError                           *)
C28_Witness ==
    \E i, j \in Indices(FileItems) :
        /\ FileItems[i].status = "failed"
        /\ FileItems[i].lastError = << "AGENT_BRIDGE_REQUIRED" >>
        /\ FileItems[j].status = "awaiting_agent"
        /\ FileItems[j].pendingPrompt = "p1"

(* ------------------------------- C29 ---------------------------------- *)
(* the item was loaded as a supervisor left it: completed with the answer *)
LoadedFulfilled(i) ==
    /\ i \in Indices(startItems)
    /\ startItems[i].status = "completed"
    /\ startItems[i].output = SupervisorAnswer

(* the item was loaded as a supervisor left it: pending again, with the   *)
(* pendingPrompt of its suspension                                        *)
LoadedReset(i) ==
    /\ i \in Indices(startItems)
    /\ startItems[i].status = "pending"
    /\ startItems[i].pendingPrompt # Absent

(* C29: supervisor fulfilment between runs. In a run that loaded an item  *)
(* which a supervisor had rewritten from awaiting_agent to completed, the *)
(* item is not selected, the worker is not invoked on it and the item is  *)
(* left as loaded; in a run that loaded an item which a supervisor had    *)
(* reset from awaiting_agent to pending, the item is selected and the     *)
(* worker has been invoked on it when the run returns.                    *)
C29_SupervisorFulfilment ==
    Running =>
        \A i \in ItemIds :
            /\ LoadedFulfilled(i) =>
                  /\ i \notin PendingSet
                  /\ i \notin dispatched
                  /\ checkpoint.items[i] = startItems[i]
            /\ LoadedReset(i) =>
                  /\ i \in PendingSet
                  /\ loop = "done" => i \in dispatched

(* a run that returned with one item fulfilled by the supervisor left     *)
(* alone and another, reset by the supervisor, invoked                    *)
C29_Witness ==
    /\ loop = "done"
    /\ \E i, j \in ItemIds :
        /\ LoadedFulfilled(i) /\ i \notin dispatched
        /\ LoadedReset(j) /\ j \in dispatched

(* ------------------------------- C30 ---------------------------------- *)
(* the properties of the object that saveCheckpoint has written           *)
FileFields == IF FileExists THEN DOMAIN file[1] ELSE {}

(* run has returned and every item of the job is completed on file        *)
JobSucceeded ==
    /\ loop = "done"
    /\ FileExists
    /\ \A i \in Indices(FileItems) : FileItems[i].status = "completed"

(* C30: cleanup signal. When run has returned and every item is completed *)
(* the checkpoint file contains cleanupReady: true and a list             *)
(* cleanupFiles.                                                          *)
C30_CleanupSignal ==
    JobSucceeded =>
        /\ "cleanupReady" \in FileFields
        /\ "cleanupFiles" \in FileFields
        /\ file[1].cleanupReady = TRUE

(* what the engine writes instead: in every content of the file the       *)
(* checkpoint has the five properties of the Checkpoint interface and no  *)
(* other, whether or not the job has succeeded                            *)
C30_CheckpointFields ==
    (FileExists /\ ~torn) =>
        FileFields = {"jobId", "startTime", "items", "completedCount", "failedCount"}

(* ------------------------------- C31 ---------------------------------- *)
IsPrefix(s, t) == Len(s) <= Len(t) /\ \A k \in Indices(s) : s[k] = t[k]

(* the invocation on item i is over: its outcome has been applied and the *)
(* worker has settled                                                     *)
InvocationOver(i) ==
    /\ Running
    /\ i \in dispatched
    /\ i \notin activePromises
    /\ i \notin workers

(* C31: per-item logs are persisted. Once an invocation is over and its   *)
(* outcome has been flushed, the logs of the item in the checkpoint file  *)
(* hold every message the worker passed to ctx.log, in call order, after  *)
(* the logs of earlier runs.                                              *)
C31_LogsPersisted ==
    \A i \in ItemIds :
        InvocationOver(i) => FileItems[i].logs = checkpoint.items[i].logs

(* what the engine does: a message is appended to the logs in memory, the *)
(* flush of an outcome writes the messages passed until then, a new       *)
(* process loads the logs on file, and the logs on file only grow         *)
C31_LogsPersistedUntilOutcome ==
    [][\A i \in ItemIds :
          /\ \A msg \in LogMessages :
                WorkerLogs(i, msg) =>
                    checkpoint'.items[i].logs = Append(checkpoint.items[i].logs, msg)
          /\ (i \in activePromises /\ i \notin activePromises') =>
                FileItems'[i].logs = checkpoint.items[i].logs
          /\ (Start /\ i \in Indices(FileItems)) =>
                checkpoint'.items[i].logs = FileItems[i].logs
          /\ (i \in Indices(FileItems) /\ i \in Indices(FileItems')) =>
                IsPrefix(FileItems[i].logs, FileItems'[i].logs)
      ]_vars

(* ------------------------------- C32 ---------------------------------- *)
(* neither config.apiKey nor one of the environment variables holds a key *)
NoCredentials ==
    /\ llm.configKey = NoKey
    /\ \A v \in DOMAIN llm.env : llm.env[v] = NoKey

ChatCalled == llm.pc \notin {"none", "ready"}

(* the list the call was given: chat's argument, or for generate the list *)
(* made of its system prompt and prompt                                   *)
MessagesGiven ==
    IF llm.via = "chat" THEN llm.given
    ELSE GenerateMessages(llm.given[1], llm.given[2])

(* C32: LLM client without credentials. After chat or generate was called *)
(* on a client built with no API key in its config and none in the        *)
(* environment, the call has thrown an AgentBridgeError whose messages    *)
(* are the message list of the call, and no HTTP request was issued.      *)
C32_NoCredentialsSuspends ==
    (llm.pc # "none" /\ NoCredentials) =>
        /\ llm.pc \in {"ready", "thrown"}
        /\ llm.requests = 0
        /\ ChatCalled =>
              /\ llm.error = AgentBridgeErrorOf(MessagesGiven)
              /\ InstanceOfAgentBridgeError(llm.error)

(* generate with a system prompt on a client without credentials *)
C32_Witness ==
    /\ llm.pc = "thrown" /\ NoCredentials
    /\ llm.via = "generate"
    /\ llm.given = << "q1", "sys" >>
    /\ llm.error.messages = << [role |-> "system", content |-> "sys"],
                               [role |-> "user", content |-> "q1"] >>
    /\ llm.requests = 0

(* ------------------------------- C33 ---------------------------------- *)
(* the worker was called on item i and its outcome has not been applied   *)
WorkerStarted(i) == i \in activePromises /\ i \in workers

(* C33: the attempt is recorded before the worker starts. Whenever the    *)
(* worker has been called on an item and no outcome has been applied yet, *)
(* the checkpoint file, like the memory, shows the item as processing     *)
(* with attempts one more than before the dispatch.                       *)
C33_AttemptRecordedBeforeWorker ==
    \A i \in ItemIds :
        WorkerStarted(i) =>
            /\ checkpoint.items[i].status = "processing"
            /\ checkpoint.items[i].attempts = attemptsBefore[i] + 1
            /\ FileExists
            /\ FileItems[i].status = "processing"
            /\ FileItems[i].attempts = attemptsBefore[i] + 1

(* the worker is running on an item for the second time *)
C33_Witness ==
    \E i \in ItemIds :
        /\ WorkerStarted(i)
        /\ attemptsBefore[i] = 1
        /\ FileItems[i].attempts = 2

(* ------------------------------- C34 ---------------------------------- *)
(* what a worker may fail with, the sentinel apart *)
OtherFailures ==
    {ErrorOf(m) : m \in Messages} \cup {LookalikeError} \cup NonErrors

(* item i entered failed with lastError and the count rule of budget *)
EnteredFailed(i, lastError, budget) ==
    /\ checkpoint'.items[i].status = "failed"
    /\ checkpoint'.items[i].lastError = lastError
    /\ checkpoint'.items[i].attempts = checkpoint.items[i].attempts
    /\ checkpoint'.failedCount =
          checkpoint.failedCount
              + (IF checkpoint.items[i].attempts >= budget THEN 1 ELSE 0)
    /\ file' = saveCheckpoint(checkpoint')

FailedEntryAction(budget) ==
    \A i \in ItemIds :
        /\ \A e \in OtherFailures :
              WorkerRejects(i, e) =>
                  EnteredFailed(i, << IF e.class = "Error" THEN e.message
                                      ELSE IF e.class = "number" THEN "42"
                                      ELSE e.value >>,
                                budget)
        /\ TimerFires(i) =>
              EnteredFailed(i, TimeoutMessage(cfg.itemTimeoutMs), budget)

(* C34: entry action for failed. A step in which an invocation ends in an *)
(* error other than the sentinel leaves the item flushed as failed, with  *)
(* lastError the message of the error, or the string of the value thrown  *)
(* when it is not an Error, and adds one to failedCount if attempts >=    *)
(* maxRetries at that moment and nothing otherwise.                       *)
C34_FailedEntryAction == [][FailedEntryAction(cfg.maxRetries)]_vars

(* the same with the budget the engine computes, maxRetries || 3 *)
C34_FailedEntryActionEngineBudget ==
    [][FailedEntryAction(maxRetriesOf(Config(cfg)))]_vars

(* ------------------------------- C35 ---------------------------------- *)
(* budget is the retry budget of the run: a failed item has been counted  *)
(* exactly when its attempts reached budget, and no item that was loaded  *)
(* failed with attempts >= budget has been dispatched                     *)
BudgetIs(budget) ==
    Running =>
        /\ \A i \in Indices(checkpoint.items) :
              checkpoint.items[i].status = "failed" =>
                  (failCounts[i] >= 1 <=> checkpoint.items[i].attempts >= budget)
        /\ \A i \in dispatched :
              ~(startItems[i].status = "failed" /\ startItems[i].attempts >= budget)

(* C35: the configured maxRetries is the budget for every non-negative    *)
(* value, 0 included: the failedCount increment and the eligibility       *)
(* filter both compare attempts with the configured value, so that with   *)
(* maxRetries = 0 an item is counted on its first failure and is not      *)
(* dispatched by any later run.                                           *)
C35_ConfiguredBudget == BudgetIs(cfg.maxRetries)

(* what the engine does: both places compare with maxRetries || 3 *)
C35_EngineBudget == BudgetIs(maxRetriesOf(Config(cfg)))

(* ------------------------------- C36 ---------------------------------- *)
(* C36: in-flight worker bound. At every instant the number of workers    *)
(* that have been called and whose own promise has not settled is at most *)
(* concurrency, also when itemTimeoutMs is configured and invocations     *)
(* time out.                                                              *)
C36_InFlightWorkerBound ==
    Cardinality(workers) <= concurrencyOf(Config(cfg))

(* what the engine bounds: the invocations whose outcome is not applied   *)
(* yet; and without a timeout these are all the workers                   *)
C36_AwaitedWorkerBound ==
    /\ Cardinality(workers \cap activePromises) <= concurrencyOf(Config(cfg))
    /\ ~TimerArmed(Config(cfg)) => C36_InFlightWorkerBound

(* ------------------------------- C37 ---------------------------------- *)
(* the worker of item i settles after the timeout has been applied *)
SettlesLate(i) ==
    /\ i \in workers \ activePromises
    /\ Running'
    /\ i \notin workers'

(* C37: one outcome per invocation. A step in which a worker settles,     *)
(* by a value, an error or the sentinel, after its item has been failed   *)
(* by timeout changes neither status, output, lastError, pendingPrompt    *)
(* nor attempts of the item, nor completedCount or failedCount, in        *)
(* memory or on file.                                                     *)
C37_OneOutcomePerInvocation ==
    [][\A i \in ItemIds :
          SettlesLate(i) =>
              /\ \A f \in {"status", "output", "lastError", "pendingPrompt", "attempts"} :
                    checkpoint'.items[i][f] = checkpoint.items[i][f]
              /\ checkpoint'.completedCount = checkpoint.completedCount
              /\ checkpoint'.failedCount = checkpoint.failedCount
              /\ file' = file
              /\ IsTimeoutError(checkpoint.items[i].lastError, cfg.itemTimeoutMs)
              /\ checkpoint.items[i].status = "failed"
      ]_vars

(* an item failed by timeout in this run whose worker has settled since *)
C37_Witness ==
    \E i \in dispatched :
        /\ Running
        /\ i \notin workers /\ i \notin activePromises
        /\ checkpoint.items[i].status = "failed"
        /\ IsTimeoutError(checkpoint.items[i].lastError, cfg.itemTimeoutMs)
        /\ FileItems[i].status = "failed"

(* ------------------------------- C38 ---------------------------------- *)
ItemFields == {"status", "attempts", "output", "lastError", "pendingPrompt"}

SameItemFields(a, b) == \A f \in ItemFields : a[f] = b[f]

(* the step is the dispatch of item i or applies the outcome of item i *)
ActsOn(i) ==
    \/ i \notin activePromises /\ i \in activePromises'
    \/ i \in activePromises /\ i \notin activePromises'

(* C38: frame of an outcome. A step of a run that dispatches item i or    *)
(* applies the outcome of item i leaves status, attempts, output,         *)
(* lastError and pendingPrompt of every other item, and jobId and         *)
(* startTime, unchanged, in memory and in the file it writes; no step of  *)
(* a run changes an item without being its dispatch or its outcome, and   *)
(* no step acts on two items.                                             *)
C38_Frame ==
    [][(Running /\ Running') =>
          /\ checkpoint'.jobId = checkpoint.jobId
          /\ checkpoint'.startTime = checkpoint.startTime
          /\ Len(checkpoint'.items) = Len(checkpoint.items)
          /\ \A i, j \in Indices(checkpoint.items) :
                (ActsOn(i) /\ j # i) =>
                    /\ ~ActsOn(j)
                    /\ SameItemFields(checkpoint'.items[j], checkpoint.items[j])
                    /\ SameItemFields(FileItems'[j], StringifyItem(checkpoint.items[j]))
                    /\ file'[1].jobId = checkpoint.jobId
                    /\ file'[1].startTime = checkpoint.startTime
          /\ \A j \in Indices(checkpoint.items) :
                ~ActsOn(j) => SameItemFields(checkpoint'.items[j], checkpoint.items[j])
      ]_vars

(* with concurrency 2, the second of two items in flight has completed    *)
(* and the first, still processing, is on file as it was                  *)
C38_Witness ==
    /\ Running
    /\ Len(checkpoint.items) = 2
    /\ activePromises = {1}
    /\ FileItems[1].status = "processing"
    /\ FileItems[2].status = "completed"

(* ------------------------------- C39 ---------------------------------- *)
(* item i was loaded failed with attempts < maxRetries, and this run has  *)
(* completed it                                                           *)
FailedThenCompleted(i) ==
    /\ Running
    /\ i \in dispatched
    /\ startItems[i].status = "failed"
    /\ startItems[i].attempts < cfg.maxRetries
    /\ checkpoint.items[i].status = "completed"

LastErrorKept(i) ==
    /\ FileItems[i].status = "completed"
    /\ startItems[i].lastError # NoError
    /\ checkpoint.items[i].lastError = startItems[i].lastError
    /\ FileItems[i].lastError = startItems[i].lastError

(* C39: lastError is never cleared by the engine. An item that failed    *)
(* with attempts < maxRetries in one run and completes in a later run     *)
(* ends completed, with output assigned the value the worker returned     *)
(* (written to the file as JSON.stringify writes it) and lastError still  *)
(* holding the message of the earlier failure, in memory and on file.     *)
C39_LastErrorNeverCleared ==
    \A i \in ItemIds :
        FailedThenCompleted(i) =>
            /\ LastErrorKept(i)
            /\ checkpoint.items[i].output = returned[i]
            /\ FileItems[i].output = StringifyField(returned[i])

(* an item completed with output r1 that still shows the error of the     *)
(* run before                                                             *)
C39_Witness ==
    \E i \in ItemIds :
        /\ FailedThenCompleted(i)
        /\ FileItems[i].output = "r1"
        /\ FileItems[i].lastError = << "boom" >>

(* ------------------------------- C40 ---------------------------------- *)
(* a 429 or 5xx response, or an ECONNRESET error of the request *)
RetryableResponse(r) ==
    \/ r.kind = "response" /\ (r.statusCode = 429 \/ r.statusCode >= 500)
    \/ r.kind = "error" /\ r.code = "ECONNRESET"

(* the chat call under way, or the latest one, got past the key check *)
Requesting == llm.pc \in {"request", "backoff", "resolved"} \/
              (llm.pc = "thrown" /\ llm.requests > 0)

RequestsBounded ==
    (llm.pc # "none" /\ Requesting) =>
        /\ llm.requests <= llm.retries + 1
        /\ llm.requests = llm.i + 1
        /\ Len(llm.delays) = IF llm.pc = "backoff" THEN llm.requests ELSE llm.requests - 1
        /\ \A k \in Indices(llm.delays) : llm.delays[k] = (2 ^ (k - 1)) * 1000

(* a request settles with a response among those that P accepts: the call *)
(* waits for a further request only after a retryable response to a       *)
(* request that is not the last, and otherwise ends without a request     *)
RetriesOnly(P(_)) ==
    (llm.pc = "request" /\ llm'.pc # "request" /\ P(llm'.response)) =>
        /\ llm'.requests = llm.requests
        /\ llm'.pc = "backoff" =>
              RetryableResponse(llm'.response) /\ llm.i < llm.retries
        /\ (~RetryableResponse(llm'.response) \/ llm.i = llm.retries) =>
              llm'.pc \in {"resolved", "thrown"}
        /\ llm'.pc = "resolved" <=>
              (llm'.response.statusCode = 200 /\ llm'.response.body = "json")

AnyResponse(r) == TRUE

MarkerFree(r) == r.body # Marker

(* C40: bounded retry in the LLM client. A chat call with retries = r and *)
(* an API key issues at most r + 1 requests; it re-issues the request     *)
(* only after a 429 or 5xx response or an ECONNRESET error, waiting       *)
(* 2^i * 1000 ms after the i-th failed request; any other error, and a    *)
(* retryable error on the last request, is thrown without a further       *)
(* request.                                                               *)
C40_BoundedRetry == []RequestsBounded /\ [][RetriesOnly(AnyResponse)]_vars

(* the same for responses whose body does not hold the text               *)
(* RATE_LIMIT_OR_SERVER_ERROR                                             *)
C40_BoundedRetryMarkerFree == []RequestsBounded /\ [][RetriesOnly(MarkerFree)]_vars

=============================================================================
